---- MODULE Spec2Model ----
(***************************************************************************)
(* cPanelBackupPlus (src/cpanel_backup_plus.py): one run of the script is  *)
(* load configuration -> parse arguments -> trigger the cPanel full backup *)
(* -> sleep -> look for the backup file -> build the storage handler ->    *)
(* upload -> purge old backups -> remove the local file.                   *)
(* The remote cPanel job, the home directory and the two destinations (S3  *)
(* bucket prefix, Google Drive folder) are the environment.                *)
(***************************************************************************)
EXTENDS Integers, Sequences, FiniteSets, TLC

\* ------------------------------------------------------------------ bounds
\* artifacts that may already be stored at a destination when a run starts
PoolSize == 3
\* largest MAX_BACKUP_FILES value the .env file is given
MaxKeptCfg == 2

\* ------------------------------------------------------- program constants
\* expected HTTP status of the cPanel API call
HttpOk == 200
\* expected "status" field of the cPanel API answer
ApiOk == 1

Runs == {1, 2}
Targets == {"gdrive", "s3"}
\* what the operator may pass as --target ("" stands for a missing flag)
ArgvValues == {"gdrive", "s3", "ftp", ""}
\* backup_filename is None
None == 0
\* a backup file left in the home directory by an earlier run
StaleFile == 1
\* the file the cPanel job started by run r writes
JobFile(r) == StaleFile + r

Max(a, b) == IF a >= b THEN a ELSE b
Min(a, b) == IF a <= b THEN a ELSE b

\* ------------------------------------------------------------ .env values
Digits == <<"0", "1", "2", "3", "4", "5", "6", "7", "8", "9">>
\* the text of a one-digit integer, as it stands in the .env file
EnvText(i) == IF i < 0 THEN <<"-", Digits[1 - i]>> ELSE <<Digits[i + 1]>>
\* os.getenv: None when the key is not set, else its text
EnvMaxBackupFiles ==
    {<<>>, <<"a", "b", "c">>} \cup {EnvText(i) : i \in -2 .. MaxKeptCfg}
EnvCheckDelay == {EnvText(-1), EnvText(1)}

DigitValue(c) == CHOOSE d \in 0 .. 9 : Digits[d + 1] = c
IsDigit(c) == \E d \in 0 .. 9 : Digits[d + 1] = c
RECURSIVE DigitsValue(_)
DigitsValue(s) ==
    IF s = <<>> THEN 0
    ELSE 10 * DigitsValue(SubSeq(s, 1, Len(s) - 1)) + DigitValue(s[Len(s)])
AllDigits(s) == Len(s) > 0 /\ \A i \in 1 .. Len(s) : IsDigit(s[i])
\* int(text): the exception it raises, or "" when it returns
PyIntError(s) ==
    IF s = <<>> THEN "TypeError"
    ELSE IF AllDigits(s) \/ (s[1] \in {"-", "+"} /\ AllDigits(Tail(s))) THEN ""
    ELSE "ValueError"
PyInt(s) ==
    IF s[1] = "-" THEN 0 - DigitsValue(Tail(s))
    ELSE IF s[1] = "+" THEN DigitsValue(Tail(s))
    ELSE DigitsValue(s)

\* ------------------------------------------------------------ python lists
\* an index of a slice, clamped to 0 .. n as list slicing does
SliceIndex(i, n) == IF i < 0 THEN Max(i + n, 0) ELSE Min(i, n)
\* s[lo:hi]
PySlice(s, lo, hi) ==
    SubSeq(s, SliceIndex(lo, Len(s)) + 1, SliceIndex(hi, Len(s)))
\* s[:hi]
PySliceTo(s, hi) == PySlice(s, 0, hi)
\* s[lo:]
PySliceFrom(s, lo) == PySlice(s, lo, Len(s))

SeqRange(s) == {s[i] : i \in 1 .. Len(s)}

\* ------------------------------------------------------------ destinations
\* a stored artifact: its key (S3) or file id (Drive) and its LastModified
\* (S3) or createdTime (Drive)
TsOf(i) == (i + 1) \div 2
Pool == {[id |-> i, ts |-> TsOf(i)] : i \in 1 .. PoolSize}
\* S3 key of an uploaded file: prefix + basename
KeyOf(f) == PoolSize + f

\* the S3 object of the stale local file: an earlier run uploaded it and
\* ended before os.remove (its purge raised)
StaleStored == [id |-> KeyOf(StaleFile), ts |-> TsOf(PoolSize)]

\* list_objects_v2 answers in key order
RECURSIVE S3Listing(_)
S3Listing(S) ==
    IF S = {} THEN <<>>
    ELSE LET a == CHOOSE x \in S : \A y \in S : x.id <= y.id
         IN  <<a>> \o S3Listing(S \ {a})

\* files().list(orderBy="createdTime desc"): newest first, the order of
\* files of equal createdTime is the service's choice
RECURSIVE GDriveListings(_)
GDriveListings(S) ==
    IF S = {} THEN {<<>>}
    ELSE LET newest == {x \in S : \A y \in S : x.ts >= y.ts}
         IN  UNION {{<<a>> \o rest : rest \in GDriveListings(S \ {a})} : a \in newest}

\* sorted(files, key=LastModified): ascending and stable
RECURSIVE Insert(_, _)
Insert(sorted, a) ==
    IF sorted = <<>> THEN <<a>>
    ELSE IF sorted[Len(sorted)].ts <= a.ts THEN Append(sorted, a)
    ELSE Append(Insert(SubSeq(sorted, 1, Len(sorted) - 1), a), sorted[Len(sorted)])
\* the sort with reverse=True: newest first
RECURSIVE SortedNewestFirst(_)
SortedNewestFirst(files) ==
    IF files = <<>> THEN <<>>
    ELSE LET a == CHOOSE x \in SeqRange(files) : \A y \in SeqRange(files) : x.ts >= y.ts
             i == CHOOSE j \in 1 .. Len(files) : files[j] = a
         IN  <<a>> \o SortedNewestFirst(SubSeq(files, 1, i - 1) \o SubSeq(files, i + 1, Len(files)))

RECURSIVE SortedByLastModified(_)
SortedByLastModified(files) ==
    IF files = <<>> THEN <<>>
    ELSE Insert(SortedByLastModified(SubSeq(files, 1, Len(files) - 1)), files[Len(files)])

\* ------------------------------------------------------------------ purge
\* the threshold and the slice off by one: one file too many is deleted
S3FilesToDeleteOneMore(files, max_backup_files) ==
    IF files = <<>> THEN <<>>
    ELSE LET existing_files == SortedByLastModified(files)
         IN  IF Len(existing_files) >= max_backup_files
             THEN PySliceTo(existing_files, Len(existing_files) - max_backup_files + 1)
             ELSE <<>>

\* S3Handler.purge: what it deletes, in the order it deletes it
S3FilesToDelete(files, max_backup_files) ==
    IF files = <<>> THEN <<>>
    ELSE LET existing_files == SortedByLastModified(files)
         IN  IF Len(existing_files) > max_backup_files
             THEN PySliceTo(existing_files, Len(existing_files) - max_backup_files)
             ELSE <<>>

\* a slice that starts one later: existing_files[MAX_BACKUP_FILES + 1:]
GDriveFilesToDeleteOneFewer(existing_files, max_backup_files) ==
    IF Len(existing_files) > max_backup_files
    THEN PySliceFrom(existing_files, max_backup_files + 1)
    ELSE <<>>

\* the slice taken from the wrong end: existing_files[:MAX_BACKUP_FILES]
GDriveFilesToDeleteNewest(existing_files, max_backup_files) ==
    IF Len(existing_files) > max_backup_files
    THEN PySliceTo(existing_files, max_backup_files)
    ELSE <<>>

\* GDriveHandler.purge: what it deletes, in the order it deletes it
GDriveFilesToDelete(existing_files, max_backup_files) ==
    IF Len(existing_files) > max_backup_files
    THEN PySliceFrom(existing_files, max_backup_files)
    ELSE <<>>

\* ------------------------------------------------------------------ state
VARIABLES
    env,              \* the .env file: text of MAX_BACKUP_FILES and BACKUP_CHECK_DELAY
    tick,             \* by how much the destination's clock may advance between two uploads
    argv,             \* argv[r]: the --target value run r is started with
    pc,               \* pc[r]: where run r stands
    MAX_BACKUP_FILES, \* per run, the module-level constant after int()
    triggered,        \* triggered[r]: "no" | "accepted" | "rejected"
    job,              \* job[r]: "none" | "running" | "finished" (remote cPanel job)
    fs,               \* backup files present in /home/<user>/
    created,          \* backup files that ever were in /home/<user>/
    backup_filename,  \* backup_filename[r]: what run_backup returned (None = 0)
    upload_status,    \* upload_status[r]
    uploaded,         \* uploaded[r]: id of the artifact stored by run r's upload (0: none)
    dest,             \* dest[t]: artifacts stored at destination t
    dest0,            \* dest at the start
    clock,            \* destination time
    nextId,           \* next Drive file id
    listed,           \* listed[r]: existing_files of run r's purge
    selected,         \* selected[r]: the files run r's purge set out to delete
    todo,             \* todo[r]: of these, the ones not yet deleted
    deleted,          \* deleted[r]: ids run r's purge deleted, in order
    failed,           \* failed[r]: ids whose deletion raised
    purged,           \* purged[r]: purge() returned
    remaining,        \* remaining[r]: artifacts at the destination when purge() returned (-1: not yet)
    cleaned,          \* cleaned[r]: os.remove(backup_filename) was done
    calls,            \* calls[r]: destination-side upload calls of run r
    log,              \* log[r]: what run r logged
    trace,            \* trace[r]: the phases run r entered, in order
    outcome           \* outcome[r]: "running" | "AllDone" | "UsageError" | exception

vars == <<env, tick, argv, pc, MAX_BACKUP_FILES, triggered, job, fs, created,
          backup_filename, upload_status, uploaded, dest, dest0, clock, nextId,
          listed, selected, todo, deleted, failed, purged, remaining, cleaned,
          calls, log, trace, outcome>>

\* process exit status of a finished run
ExitCode(o) ==
    IF o = "AllDone" THEN 0 ELSE IF o = "UsageError" THEN 2 ELSE 1

\* the runs started in this behaviour
Started == {r \in Runs : pc[r] # "absent"}

InitRuns(started) ==
    /\ env \in [max_backup_files : EnvMaxBackupFiles, check_delay : EnvCheckDelay]
    /\ argv \in [Runs -> ArgvValues]
    /\ \A r \in Runs \ started : argv[r] = ""
    /\ pc = [r \in Runs |-> IF r \in started THEN "load" ELSE "absent"]
    /\ MAX_BACKUP_FILES = [r \in Runs |-> 0]
    /\ triggered = [r \in Runs |-> "no"]
    /\ job = [r \in Runs |-> "none"]
    /\ fs \in SUBSET {StaleFile}
    /\ created = fs
    /\ backup_filename = [r \in Runs |-> None]
    /\ upload_status = [r \in Runs |-> FALSE]
    /\ uploaded = [r \in Runs |-> 0]
    /\ dest \in [Targets -> SUBSET (Pool \cup {StaleStored})]
    /\ \A t \in Targets : (\A r \in started : argv[r] # t) => dest[t] = {}
    /\ StaleStored \in dest["s3"] => StaleFile \in fs
    /\ StaleStored \notin dest["gdrive"]
    /\ dest0 = dest
    /\ clock = TsOf(PoolSize)
    /\ nextId = PoolSize + 1
    /\ listed = [r \in Runs |-> <<>>]
    /\ selected = [r \in Runs |-> <<>>]
    /\ todo = [r \in Runs |-> <<>>]
    /\ deleted = [r \in Runs |-> <<>>]
    /\ failed = [r \in Runs |-> <<>>]
    /\ purged = [r \in Runs |-> FALSE]
    /\ remaining = [r \in Runs |-> -1]
    /\ cleaned = [r \in Runs |-> FALSE]
    /\ calls = [r \in Runs |-> 0]
    /\ log = [r \in Runs |-> {}]
    /\ trace = [r \in Runs |-> <<>>]
    /\ outcome = [r \in Runs |-> "running"]

\* one run of the script; two uploads may fall into the same clock tick
Init == InitRuns({1}) /\ tick = {0, 1}

\* two runs of the script started side by side (two cron entries, or a run
\* that outlasts the schedule) with a valid configuration (MAX_BACKUP_FILES
\* >= 1, a delay >= 0) and against the same destination; the destination's
\* timestamps increase from upload to upload
InitTwo ==
    /\ InitRuns(Runs)
    /\ tick = {1}
    /\ PyIntError(env.max_backup_files) = "" /\ PyInt(env.max_backup_files) >= 1
    /\ PyIntError(env.check_delay) = "" /\ PyInt(env.check_delay) >= 0
    /\ argv[1] \in Targets /\ argv[2] = argv[1]

\* run r enters phase ph
Enter(r, ph) == trace' = [trace EXCEPT ![r] = Append(@, ph)]
\* run r ends: the script returns, argparse exits, or an exception is not caught
Ends(r, o) ==
    /\ pc' = [pc EXCEPT ![r] = "done"]
    /\ outcome' = [outcome EXCEPT ![r] = o]
Goes(r, to) ==
    /\ pc' = [pc EXCEPT ![r] = to]
    /\ UNCHANGED outcome
Logs(r, msg) == log' = [log EXCEPT ![r] = @ \cup {msg}]

\* ---------------------------------------------------------------- startup
\* module level: MAX_BACKUP_FILES = int(os.getenv(...)), BACKUP_CHECK_DELAY likewise
LoadConfig(r) ==
    /\ pc[r] = "load"
    /\ Enter(r, "load")
    /\ IF PyIntError(env.max_backup_files) # ""
       THEN /\ Ends(r, PyIntError(env.max_backup_files))
            /\ UNCHANGED MAX_BACKUP_FILES
       ELSE IF PyIntError(env.check_delay) # ""
       THEN /\ Ends(r, PyIntError(env.check_delay))
            /\ MAX_BACKUP_FILES' = [MAX_BACKUP_FILES EXCEPT ![r] = PyInt(env.max_backup_files)]
       ELSE /\ MAX_BACKUP_FILES' = [MAX_BACKUP_FILES EXCEPT ![r] = PyInt(env.max_backup_files)]
            /\ Goes(r, "parse")
    /\ UNCHANGED <<env, tick, argv, triggered, job, fs, created, backup_filename,
                   upload_status, uploaded, dest, dest0, clock, nextId, listed,
                   selected, todo, deleted, failed, purged, remaining, cleaned, calls, log>>

\* --target without choices and not required: any value goes on
ParseArgsAnyTarget(r) ==
    /\ pc[r] = "parse"
    /\ Enter(r, "parse")
    /\ Goes(r, "trigger")
    /\ UNCHANGED <<env, tick, argv, MAX_BACKUP_FILES, triggered, job, fs, created,
                   backup_filename, upload_status, uploaded, dest, dest0, clock,
                   nextId, listed, selected, todo, deleted, failed, purged,
                   remaining, cleaned, calls, log>>

\* argparse: --target is required and one of gdrive, s3
ParseArgs(r) ==
    /\ pc[r] = "parse"
    /\ Enter(r, "parse")
    /\ IF argv[r] \in Targets THEN Goes(r, "trigger") ELSE Ends(r, "UsageError")
    /\ UNCHANGED <<env, tick, argv, MAX_BACKUP_FILES, triggered, job, fs, created,
                   backup_filename, upload_status, uploaded, dest, dest0, clock,
                   nextId, listed, selected, todo, deleted, failed, purged, remaining, cleaned, calls,
                   log>>

\* ------------------------------------------------------------ CpanelHandler
\* what requests.post may give: an exception (also response.json() raising),
\* or a response with its status_code and the "status" field of its JSON body
TriggerResponses ==
    {[raised |-> TRUE, status_code |-> 0, api_status |-> 0]}
    \cup [raised : {FALSE}, status_code : {HttpOk, 500}, api_status : {ApiOk, 0}]

\* CpanelHandler.__initiate_full_backup, called first by run_backup
InitiateFullBackup(r) ==
    /\ pc[r] = "trigger"
    /\ Enter(r, "trigger")
    /\ \E resp \in TriggerResponses :
         IF resp.raised
         THEN /\ Ends(r, "RequestException")
              /\ UNCHANGED <<triggered, job, log>>
         ELSE /\ Goes(r, "wait")
              /\ IF resp.status_code # HttpOk
                 THEN /\ Logs(r, "unexpected response code")
                      /\ triggered' = [triggered EXCEPT ![r] = "rejected"]
                      /\ UNCHANGED job
                 ELSE IF resp.api_status # ApiOk
                 THEN /\ Logs(r, "unexpected status")
                      /\ triggered' = [triggered EXCEPT ![r] = "rejected"]
                      /\ UNCHANGED job
                 ELSE /\ triggered' = [triggered EXCEPT ![r] = "accepted"]
                      /\ job' = [job EXCEPT ![r] = "running"]
                      /\ UNCHANGED log
    /\ UNCHANGED <<env, tick, argv, MAX_BACKUP_FILES, fs, created, backup_filename,
                   upload_status, uploaded, dest, dest0, clock, nextId, listed,
                   selected, todo, deleted, failed, purged, remaining, cleaned, calls>>

\* the remote cPanel job writes its archive into the home directory, whenever
\* it is ready: before or after the script looks for it
BackupJobCompletes(r) ==
    /\ job[r] = "running"
    /\ job' = [job EXCEPT ![r] = "finished"]
    /\ fs' = fs \cup {JobFile(r)}
    /\ created' = created \cup {JobFile(r)}
    /\ UNCHANGED <<env, tick, argv, pc, MAX_BACKUP_FILES, triggered, backup_filename,
                   upload_status, uploaded, dest, dest0, clock, nextId, listed,
                   selected, todo, deleted, failed, purged, remaining, cleaned, calls, log, trace,
                   outcome>>

\* run_backup: time.sleep(BACKUP_CHECK_DELAY), a ValueError for a negative delay
Sleep(r) ==
    /\ pc[r] = "wait"
    /\ Enter(r, "wait")
    /\ IF PyInt(env.check_delay) < 0 THEN Ends(r, "ValueError") ELSE Goes(r, "locate")
    /\ UNCHANGED <<env, tick, argv, MAX_BACKUP_FILES, triggered, job, fs, created,
                   backup_filename, upload_status, uploaded, dest, dest0, clock,
                   nextId, listed, selected, todo, deleted, failed, purged, remaining, cleaned, calls,
                   log>>

\* CpanelHandler.__get_backup_file and the end of run_backup: the first
\* matching file in directory order, or None
GetBackupFile(r) ==
    /\ pc[r] = "locate"
    /\ Enter(r, "locate")
    /\ IF fs = {}
       THEN /\ backup_filename' = [backup_filename EXCEPT ![r] = None]
            /\ Logs(r, "No backup file found")
       ELSE /\ \E f \in fs : backup_filename' = [backup_filename EXCEPT ![r] = f]
            /\ UNCHANGED log
    /\ Goes(r, "handler")
    /\ UNCHANGED <<env, tick, argv, MAX_BACKUP_FILES, triggered, job, fs, created,
                   upload_status, uploaded, dest, dest0, clock, nextId, listed,
                   selected, todo, deleted, failed, purged, remaining, cleaned, calls>>

\* ------------------------------------------------------------------ driver
\* GDriveHandler() / S3Handler(): the credentials file or the AWS profile
\* may be missing, and the constructor raises
MakeHandler(r) ==
    /\ pc[r] = "handler"
    /\ Enter(r, "handler")
    /\ \E ok \in BOOLEAN : IF ok THEN Goes(r, "upload") ELSE Ends(r, "CredentialsError")
    /\ UNCHANGED <<env, tick, argv, MAX_BACKUP_FILES, triggered, job, fs, created,
                   backup_filename, upload_status, uploaded, dest, dest0, clock,
                   nextId, listed, selected, todo, deleted, failed, purged, remaining, cleaned, calls,
                   log>>

\* the destination after a put of file f at time ts: S3 overwrites the key,
\* Drive creates a new file
Stored(target, f, ts) ==
    IF target = "s3"
    THEN {a \in dest[target] : a.id # KeyOf(f)} \cup {[id |-> KeyOf(f), ts |-> ts]}
    ELSE dest[target] \cup {[id |-> nextId, ts |-> ts]}

\* S3Handler.upload / GDriveHandler.upload
Upload(r) ==
    /\ pc[r] = "upload"
    /\ Enter(r, "upload")
    /\ IF backup_filename[r] = None
       THEN \* os.path.exists(None) raises TypeError, outside the try
            /\ Ends(r, "TypeError")
            /\ UNCHANGED <<upload_status, uploaded, dest, clock, nextId, calls, log>>
       ELSE IF backup_filename[r] \notin fs
       THEN /\ Logs(r, "Cannot upload: file does not exist")
            /\ upload_status' = [upload_status EXCEPT ![r] = FALSE]
            /\ Goes(r, "purge")
            /\ UNCHANGED <<uploaded, dest, clock, nextId, calls>>
       ELSE /\ calls' = [calls EXCEPT ![r] = @ + 1]
            /\ Goes(r, "purge")
            /\ \E ok \in BOOLEAN :
                 IF ok
                 THEN \E ts \in {clock + d : d \in tick} :
                        /\ dest' = [dest EXCEPT ![argv[r]] = Stored(argv[r], backup_filename[r], ts)]
                        /\ uploaded' = [uploaded EXCEPT ![r] =
                               IF argv[r] = "s3" THEN KeyOf(backup_filename[r]) ELSE nextId]
                        /\ nextId' = IF argv[r] = "s3" THEN nextId ELSE nextId + 1
                        /\ clock' = ts
                        /\ upload_status' = [upload_status EXCEPT ![r] = TRUE]
                        /\ UNCHANGED log
                 ELSE /\ Logs(r, "Failed to upload file")
                      /\ upload_status' = [upload_status EXCEPT ![r] = FALSE]
                      /\ UNCHANGED <<uploaded, dest, clock, nextId>>
    /\ UNCHANGED <<env, tick, argv, MAX_BACKUP_FILES, triggered, job, fs, created,
                   backup_filename, dest0, listed, selected, todo, deleted, failed, purged, remaining,
                   cleaned>>

\* the listings the destination may answer run r's purge with
Listings(target) ==
    IF target = "s3" THEN {S3Listing(dest[target])} ELSE GDriveListings(dest[target])

\* existing_files of purge, from the listing
ExistingFiles(target, listing) ==
    IF target = "s3" THEN SortedByLastModified(listing) ELSE listing

\* files_to_delete of purge, from the listing
FilesToDelete(target, listing, max_backup_files) ==
    IF target = "s3"
    THEN S3FilesToDelete(listing, max_backup_files)
    ELSE GDriveFilesToDelete(listing, max_backup_files)

\* purge, first half: list the destination and pick the files to delete.
\* The list call may raise; purge returns at once when nothing is picked.
PurgeList(r) ==
    /\ pc[r] = "purge"
    /\ Enter(r, "purge")
    /\ \E ok \in BOOLEAN :
         IF ~ok
         THEN /\ Ends(r, "ListError")
              /\ UNCHANGED <<listed, selected, todo, purged, remaining>>
         ELSE \E listing \in Listings(argv[r]) :
                LET files_to_delete == FilesToDelete(argv[r], listing, MAX_BACKUP_FILES[r])
                IN  /\ listed' = [listed EXCEPT ![r] = ExistingFiles(argv[r], listing)]
                    /\ selected' = [selected EXCEPT ![r] = files_to_delete]
                    /\ todo' = [todo EXCEPT ![r] = files_to_delete]
                    /\ purged' = [purged EXCEPT ![r] = files_to_delete = <<>>]
                    /\ remaining' = [remaining EXCEPT ![r] =
                           IF files_to_delete = <<>> THEN Cardinality(dest[argv[r]]) ELSE @]
                    /\ Goes(r, IF files_to_delete = <<>> THEN "cleanup" ELSE "deleting")
    /\ UNCHANGED <<env, tick, argv, MAX_BACKUP_FILES, triggered, job, fs, created,
                   backup_filename, upload_status, uploaded, dest, dest0, clock,
                   nextId, deleted, failed, cleaned, calls, log>>

\* purge, one turn of its loop: delete_object(Key) / files().delete(fileId).
\* Neither call is inside a try. Drive answers 404 for a file that is gone,
\* S3 deletes a missing key without complaint.
PurgeDelete(r) ==
    /\ pc[r] = "deleting"
    /\ LET file == Head(todo[r])
           there == \E a \in dest[argv[r]] : a.id = file.id
       IN  \E ok \in BOOLEAN :
             IF ok /\ (there \/ argv[r] = "s3")
             THEN /\ dest' = [dest EXCEPT ![argv[r]] = {a \in @ : a.id # file.id}]
                  /\ deleted' = [deleted EXCEPT ![r] = Append(@, file.id)]
                  /\ todo' = [todo EXCEPT ![r] = Tail(@)]
                  /\ purged' = [purged EXCEPT ![r] = Tail(todo[r]) = <<>>]
                  /\ remaining' = [remaining EXCEPT ![r] =
                         IF Tail(todo[r]) = <<>> THEN Cardinality(dest'[argv[r]]) ELSE @]
                  /\ Logs(r, "Successfully purged old backup file")
                  /\ UNCHANGED failed
                  /\ Goes(r, IF Tail(todo[r]) = <<>> THEN "cleanup" ELSE "deleting")
             ELSE /\ failed' = [failed EXCEPT ![r] = Append(@, file.id)]
                  /\ Ends(r, "DeleteError")
                  /\ UNCHANGED <<dest, deleted, todo, purged, remaining, log>>
    /\ UNCHANGED <<env, tick, argv, MAX_BACKUP_FILES, triggered, job, fs, created,
                   backup_filename, upload_status, uploaded, dest0, clock, nextId,
                   listed, selected, cleaned, calls, trace>>

\* the local file removed whatever the upload returned
CleanupAlways(r) == TRUE

\* "if upload_status:" of the driver
CleanupWanted(r) == upload_status[r]

\* the end of the driver: os.remove after a successful upload, 'All done !'
Cleanup(r) ==
    /\ pc[r] = "cleanup"
    /\ IF CleanupWanted(r)
       THEN /\ Enter(r, "cleanup")
            /\ IF backup_filename[r] \in fs
               THEN /\ fs' = fs \ {backup_filename[r]}
                    /\ cleaned' = [cleaned EXCEPT ![r] = TRUE]
                    /\ Logs(r, "Cleaned up backup file")
                    /\ Ends(r, "AllDone")
               ELSE /\ Ends(r, "FileNotFoundError")
                    /\ UNCHANGED <<fs, cleaned, log>>
       ELSE /\ Ends(r, "AllDone")
            /\ UNCHANGED <<fs, cleaned, log, trace>>
    /\ UNCHANGED <<env, tick, argv, MAX_BACKUP_FILES, triggered, job, created,
                   backup_filename, upload_status, uploaded, dest, dest0, clock,
                   nextId, listed, selected, todo, deleted, failed, purged, remaining, calls>>

Next ==
    \E r \in Runs :
        \/ LoadConfig(r)
        \/ ParseArgs(r)
        \/ InitiateFullBackup(r)
        \/ BackupJobCompletes(r)
        \/ Sleep(r)
        \/ GetBackupFile(r)
        \/ MakeHandler(r)
        \/ Upload(r)
        \/ PurgeList(r)
        \/ PurgeDelete(r)
        \/ Cleanup(r)

Spec == Init /\ [][Next]_vars

\* two interleaved runs
SpecTwo == InitTwo /\ [][Next]_vars

\* ================================================================= claims
LaterPhases == {"wait", "locate", "handler", "upload", "purge", "cleanup"}
Phases(r) == SeqRange(trace[r])
\* run r's purge has listed the destination and picked what to delete
HasListed(r) == "purge" \in Phases(r) /\ outcome[r] # "ListError"
\* the files run r's purge listed and did not pick
Retained(r) == SeqRange(listed[r]) \ SeqRange(selected[r])

\* C1: a run whose trigger request is not accepted (HTTP status other than
\* 200, or API status other than 1) aborts: it enters no later phase (no
\* wait, locate, upload, purge, cleanup) and does not end as a normal run.
C1_RejectedTriggerAborts ==
    \A r \in Runs :
        triggered[r] = "rejected" =>
            /\ Phases(r) \cap LaterPhases = {}
            /\ outcome[r] # "AllDone"

\* C2: purge is invoked only after this run's upload returned success;
\* after a failed upload nothing is deleted at the destination.
C2_PurgeOnlyAfterUpload ==
    \A r \in Runs :
        /\ "purge" \in Phases(r) => upload_status[r]
        /\ ~upload_status[r] => deleted[r] = <<>>

\* C3: the local artifact file is removed only when the upload returned
\* success; when the upload did not succeed (failed, or never attempted)
\* every backup file that was in the home directory is still there when the
\* run has ended.
C3_LocalFileKeptUnlessUploaded ==
    \A r \in Started :
        /\ cleaned[r] => upload_status[r]
        /\ (pc[r] = "done" /\ ~upload_status[r]) => fs = created

\* C3 witness: a run has ended after a failed upload attempt of a file
\* that is still in the home directory.
C3_Witness ==
    \E r \in Started :
        /\ pc[r] = "done"
        /\ calls[r] = 1
        /\ ~upload_status[r]
        /\ backup_filename[r] \in fs

\* C4: once purge has completed, at most MAX_BACKUP_FILES artifacts remain
\* at the destination (one run, no other writer).
C4_AtMostMaxKeptAfterPurge ==
    \A r \in Started :
        purged[r] => Cardinality(dest[argv[r]]) <= MAX_BACKUP_FILES[r]

\* C5, as claimed: when the listing is longer than max_kept, purge picks
\* exactly len(existing) - max_kept entries, each strictly older than every
\* entry it retains.
C5_SelectionStrictlyOlder ==
    \A r \in Started :
        (HasListed(r) /\ Len(listed[r]) > MAX_BACKUP_FILES[r]) =>
            /\ Len(selected[r]) = Len(listed[r]) - MAX_BACKUP_FILES[r]
            /\ \A c \in SeqRange(selected[r]) : \A k \in Retained(r) : c.ts < k.ts

\* the number of entries purge picks from a listing of n entries
PickedCount(target, n, max_kept) ==
    IF max_kept >= 0 THEN n - max_kept
    ELSE IF target = "s3" THEN n
    ELSE Min(n, 0 - max_kept)

\* C5, amended: when the listing is longer than max_kept, purge picks
\* distinct entries of the listing, len(existing) - max_kept of them for
\* max_kept >= 0 (for a negative max_kept: all of them on S3, the
\* min(len, -max_kept) oldest on Drive), and no picked entry is newer than
\* a retained one.
C5_SelectionNotNewer ==
    \A r \in Started :
        (HasListed(r) /\ Len(listed[r]) > MAX_BACKUP_FILES[r]) =>
            /\ Len(selected[r]) = PickedCount(argv[r], Len(listed[r]), MAX_BACKUP_FILES[r])
            /\ Cardinality(SeqRange(selected[r])) = Len(selected[r])
            /\ SeqRange(selected[r]) \subseteq SeqRange(listed[r])
            /\ \A c \in SeqRange(selected[r]) : \A k \in Retained(r) : c.ts <= k.ts

\* C5 witness: a purge with a positive max_kept picked an entry that is
\* exactly as old as one it retained.
C5_Witness ==
    \E r \in Started :
        /\ HasListed(r)
        /\ MAX_BACKUP_FILES[r] >= 1
        /\ Len(listed[r]) > MAX_BACKUP_FILES[r]
        /\ \E c \in SeqRange(selected[r]) : \E k \in Retained(r) : c.ts = k.ts

\* C6: a run that finds no backup file after the wait aborts there: it
\* enters no later phase and ends as a failed run, and neither the
\* destination nor the home directory is modified.
C6_NotFoundAborts ==
    \A r \in Started :
        "No backup file found" \in log[r] =>
            /\ Phases(r) \cap {"handler", "upload", "purge", "cleanup"} = {}
            /\ outcome[r] # "AllDone"
            /\ dest = dest0 /\ calls[r] = 0 /\ deleted[r] = <<>>
            /\ ~cleaned[r]

\* C7: upload called for a file that does not exist (also when the path is
\* the locator's not-found result) returns failure as a value: the process
\* goes on to the statement after the call, and no destination-side call
\* was made.
C7_UploadOfMissingFileReturns ==
    \A r \in Started :
        ( /\ "upload" \in Phases(r)
          /\ \/ backup_filename[r] = None
             \/ "Cannot upload: file does not exist" \in log[r] ) =>
            /\ pc[r] # "done" \/ "purge" \in Phases(r)
            /\ ~upload_status[r]
            /\ calls[r] = 0

\* C8: a MAX_BACKUP_FILES of zero or less ends the run at startup with an
\* error, before any phase runs, and purge never deletes anything under it.
C8_NonPositiveMaxKeptRejected ==
    \A r \in Started :
        ( /\ "load" \in Phases(r)
          /\ PyIntError(env.max_backup_files) = ""
          /\ PyInt(env.max_backup_files) <= 0 ) =>
            /\ pc[r] = "done"
            /\ outcome[r] # "AllDone"
            /\ Phases(r) = {"load"}
            /\ deleted[r] = <<>>

\* C9: a deletion that fails during purge does not end the run: every
\* picked artifact is still attempted once, and after a successful upload
\* the local file is still removed.
C9_FailedDeletionDoesNotAbort ==
    \A r \in Started :
        (pc[r] = "done" /\ failed[r] # <<>>) =>
            /\ Len(deleted[r]) + Len(failed[r]) = Len(selected[r])
            /\ upload_status[r] => cleaned[r]

\* C10: a run ends with the success outcome only if the artifact was
\* uploaded and the local file removed; a run whose trigger was rejected,
\* whose artifact was not found or whose upload failed ends with a non-zero
\* outcome.
C10_SuccessOnlyWhenUploadedAndCleaned ==
    \A r \in Started :
        pc[r] = "done" =>
            /\ outcome[r] = "AllDone" => (upload_status[r] /\ cleaned[r])
            /\ ( \/ triggered[r] = "rejected"
                 \/ "No backup file found" \in log[r]
                 \/ ("upload" \in Phases(r) /\ ~upload_status[r]) )
               => ExitCode(outcome[r]) # 0

\* ------------------------------------------------------- claims C11 - C19
Ids(s) == {s[i].id : i \in 1 .. Len(s)}
DistinctTs(S) == \A x \in S : \A y \in S : x # y => x.ts # y.ts
IsPrefix(s, t) == Len(s) <= Len(t) /\ \A i \in 1 .. Len(s) : s[i] = t[i]
\* the entry of run r's listing with the given id
ListedAs(r, id) == CHOOSE x \in SeqRange(listed[r]) : x.id = id

\* scenario A: the trigger was accepted, the artifact found, the upload
\* succeeded, the destination held exactly max_kept >= 1 artifacts before
\* the upload, and the run has ended
ScenarioA(r) ==
    /\ pc[r] = "done"
    /\ triggered[r] = "accepted"
    /\ backup_filename[r] # None
    /\ upload_status[r]
    /\ MAX_BACKUP_FILES[r] >= 1
    /\ Cardinality(dest0[argv[r]]) = MAX_BACKUP_FILES[r]

\* what scenario A ends in: one artifact deleted, none of the listing older
\* than it, the local file removed, the run ended normally
ScenarioAResult(r) ==
    /\ Len(deleted[r]) = 1
    /\ deleted[r][1] \in Ids(listed[r])
    /\ \A x \in SeqRange(listed[r]) : ListedAs(r, deleted[r][1]).ts <= x.ts
    /\ cleaned[r]
    /\ backup_filename[r] \notin fs
    /\ outcome[r] = "AllDone"

C12_UploadDeletedOnlyIfAmongOldest ==
    \A r \in Started :
        (uploaded[r] # 0 /\ uploaded[r] \in SeqRange(deleted[r])) =>
            /\ uploaded[r] \in Ids(listed[r])
            /\ Cardinality({x \in SeqRange(listed[r]) :
                                x.ts < ListedAs(r, uploaded[r]).ts})
                   < Len(listed[r]) - MAX_BACKUP_FILES[r]

\* C12 witness: with max_kept >= 1 a purge deleted the artifact its own run
\* had just uploaded.
C12_Witness ==
    \E r \in Started :
        /\ MAX_BACKUP_FILES[r] >= 1
        /\ uploaded[r] # 0
        /\ uploaded[r] \in SeqRange(deleted[r])

\* C13: purge deletes nothing when the listing is empty or holds at most
\* max_kept artifacts; and once a purge has completed, a purge of what is
\* then stored (no write in between) deletes nothing.
C13_PurgeNoOpUnderThreshold ==
    \A r \in Started :
        /\ (HasListed(r) /\ (listed[r] = <<>> \/ Len(listed[r]) <= MAX_BACKUP_FILES[r]))
               => selected[r] = <<>>
        /\ purged[r] =>
               \A listing \in Listings(argv[r]) :
                   FilesToDelete(argv[r], listing, MAX_BACKUP_FILES[r]) = <<>>

\* C14: two interleaved runs are not safe, because each purge works from
\* its own point-in-time listing without a lock: once a purge has returned,
\* at most max_kept of the artifacts it listed are still stored, and whatever
\* the destination holds beyond max_kept was uploaded by the other run after
\* that listing. The two unsafe interleavings are C14_Witness.
C14_PurgeBoundsOnlyItsOwnListing ==
    \A r \in Started :
        purged[r] =>
            /\ Ids(selected[r]) = SeqRange(deleted[r])
            /\ Cardinality(dest[argv[r]] \cap SeqRange(listed[r])) <= MAX_BACKUP_FILES[r]

\* C14 witness: a run's purge has deleted the artifact the other run had
\* uploaded, and a purge has returned leaving more than max_kept artifacts.
C14_Witness ==
    /\ \E r \in Started : \E o \in Started \ {r} :
           /\ uploaded[o] # 0
           /\ uploaded[o] # uploaded[r]
           /\ uploaded[o] \in SeqRange(deleted[r])
    /\ \E q \in Started : purged[q] /\ remaining[q] > MAX_BACKUP_FILES[q]

\* the phases that are backup logic
BackupPhases == {"trigger", "wait", "locate", "handler", "upload", "purge", "cleanup"}
\* nothing of the backup logic has happened in run r
NoBackupLogic(r) ==
    /\ Phases(r) \cap BackupPhases = {}
    /\ triggered[r] = "no" /\ job[r] = "none"
    /\ calls[r] = 0 /\ deleted[r] = <<>> /\ ~cleaned[r]
    /\ dest = dest0 /\ fs = created
\* both values of the .env file convert to integers
ConfigLoads ==
    PyIntError(env.max_backup_files) = "" /\ PyIntError(env.check_delay) = ""

\* C15, as claimed: with the destination flag missing or outside
\* {gdrive, s3} the program reports a usage error and stops before any
\* backup logic runs.
C15_BadTargetIsUsageError ==
    \A r \in Started :
        argv[r] \notin Targets =>
            /\ NoBackupLogic(r)
            /\ pc[r] = "done" => outcome[r] = "UsageError"

\* C15, amended: with the destination flag missing or outside {gdrive, s3}
\* the program stops before any backup logic runs; it reports the usage
\* error when MAX_BACKUP_FILES and BACKUP_CHECK_DELAY convert to integers,
\* and ends with the conversion's exception, before the flag is parsed,
\* when they do not.
C15_BadTargetStopsBeforeBackup ==
    \A r \in Started :
        argv[r] \notin Targets =>
            /\ NoBackupLogic(r)
            /\ pc[r] = "done" =>
                   IF ConfigLoads
                   THEN outcome[r] = "UsageError" /\ trace[r] = <<"load", "parse">>
                   ELSE outcome[r] \in {"TypeError", "ValueError"} /\ trace[r] = <<"load">>

\* C15 witness: a run with a bad flag has ended with the usage error.
C15_Witness ==
    \E r \in Started :
        argv[r] \notin Targets /\ pc[r] = "done" /\ outcome[r] = "UsageError"

\* the deletions of run r follow the order of the files it picked
DeletesInPickedOrder(r) ==
    /\ Len(deleted[r]) <= Len(selected[r])
    /\ \A i \in 1 .. Len(deleted[r]) : deleted[r][i] = selected[r][i].id

\* C16: both variants delete the picked artifacts oldest first, in
\* increasing order of the timestamp the variant orders by.
C16_DeletesOldestFirst ==
    \A r \in Started :
        /\ DeletesInPickedOrder(r)
        /\ \A i \in 1 .. Len(selected[r]) : \A j \in 1 .. Len(selected[r]) :
               i < j => selected[r][i].ts <= selected[r][j].ts

\* the phases in the order of the script
PhaseOrder ==
    <<"load", "parse", "trigger", "wait", "locate", "handler", "upload", "purge", "cleanup">>

\* C17: the phases run in the strict order trigger, wait, locate, upload,
\* purge, cleanup, each at most once (one trigger request, at most one
\* upload attempt), and a phase that fails stops the run there.
C17_StrictSequenceStopsOnFailure ==
    \A r \in Started :
        /\ IsPrefix(trace[r], PhaseOrder)
        /\ calls[r] <= 1
        /\ triggered[r] = "rejected" => "wait" \notin Phases(r)
        /\ "No backup file found" \in log[r] => Phases(r) \cap {"handler", "upload"} = {}
        /\ ("upload" \in Phases(r) /\ ~upload_status[r]) => "purge" \notin Phases(r)

\* C19: on artifacts with pairwise distinct timestamps and with the
\* MAX_BACKUP_FILES the loader has accepted, the S3 purge and the Drive
\* purge delete the same set of artifacts.
C19_VariantsDeleteSameSet ==
    \A r \in Started :
        (HasListed(r) /\ DistinctTs(SeqRange(listed[r]))) =>
            \A listing \in GDriveListings(SeqRange(listed[r])) :
                Ids(S3FilesToDelete(S3Listing(SeqRange(listed[r])), MAX_BACKUP_FILES[r]))
                    = Ids(GDriveFilesToDelete(listing, MAX_BACKUP_FILES[r]))

\* the destination the two runs share
SharedTarget == argv[1]
\* the ids ever stored at the shared destination
EverStored ==
    {a.id : a \in dest0[SharedTarget]} \cup ({uploaded[r] : r \in Started} \ {0})
\* the artifacts stored now that are newer than a
NewerStored(a) == {b \in dest[SharedTarget] : b.ts > a.ts}
\* the artifacts run r's step deletes
DeletedBy(r) ==
    IF deleted'[r] # deleted[r] THEN dest[argv[r]] \ dest'[argv[r]] ELSE {}
\* a run has uploaded under a key the destination already held
KeyReused ==
    \E r \in Started : uploaded[r] \in {a.id : a \in dest0[SharedTarget]}

\* C18, as claimed: with max_kept >= 1 and increasing upload timestamps no
\* deletion of a purge removes an artifact that has fewer than max_kept
\* newer artifacts stored beside it, however two runs interleave, and at
\* least min(max_kept, number of artifacts ever stored) artifacts remain.
C18_NewestNeverDeleted ==
    /\ [][DistinctTs(dest0[SharedTarget]) =>
             \A r \in Started : \A a \in DeletedBy(r) :
                 Cardinality(NewerStored(a)) >= MAX_BACKUP_FILES[r]]_vars
    /\ [](DistinctTs(dest0[SharedTarget]) =>
             Cardinality(dest[SharedTarget])
                 >= Min(PyInt(env.max_backup_files), Cardinality(EverStored)))

\* C18, amended: with max_kept >= 1 and increasing upload timestamps, and as
\* long as no upload has replaced an object under a key the destination
\* already held (Drive never does: every upload gets a new file id), no
\* deletion of a purge removes an artifact that has fewer than max_kept newer
\* artifacts stored beside it, however two runs interleave, and at least
\* min(max_kept, number of artifacts ever stored) artifacts remain.
C18_NewestKeptUnlessKeyReused ==
    /\ [][(DistinctTs(dest0[SharedTarget]) /\ ~KeyReused) =>
             \A r \in Started : \A a \in DeletedBy(r) :
                 Cardinality(NewerStored(a)) >= MAX_BACKUP_FILES[r]]_vars
    /\ []((DistinctTs(dest0[SharedTarget]) /\ ~KeyReused) =>
             Cardinality(dest[SharedTarget])
                 >= Min(PyInt(env.max_backup_files), Cardinality(EverStored)))

\* C18 witness: one run is in the middle of its deletions, from a listing
\* taken before the other run's upload, which is stored now.
C18_Witness ==
    \E r \in Started : \E o \in Started \ {r} :
        /\ DistinctTs(dest0[SharedTarget]) /\ ~KeyReused
        /\ pc[r] = "deleting" /\ deleted[r] # <<>>
        /\ uploaded[o] # 0
        /\ uploaded[o] \notin Ids(listed[r])
        /\ uploaded[o] \in {a.id : a \in dest[SharedTarget]}

====
